---- MODULE Spec2Model ----
(***************************************************************************)
(* Ambre chamber firmware (src/src_mcu/src/main.cpp): setup() and loop()   *)
(* of the Feather M4 sketch that samples a DS18B20 and a DHT22, drives a   *)
(* solenoid valve from the humidity, shows its health on the NeoPixel and  *)
(* answers serial commands.                                                *)
(*                                                                         *)
(* Floats are modelled in tenths (F(50) is 50.0); NAN is a value outside   *)
(* every range and every comparison with it is false, as in IEEE 754.      *)
(* uint32_t is modelled WordBits wide.                                     *)
(***************************************************************************)
EXTENDS Integers, Sequences, FiniteSets, TLC

\* ------------------------------------------------------------------ bounds
WordBits == 12          \* width of the millisecond counter in the model
MaxPending == 2         \* complete commands the serial receiver can hold back

Pow2(n) == 2 ^ n
Modulus == Pow2(WordBits)

\* ------------------------------------------------------------------ floats
F(n) == n * 10

NAN == -99999

isnan(x) == x = NAN

FGt(a, b) == ~isnan(a) /\ ~isnan(b) /\ a > b
FLt(a, b) == ~isnan(a) /\ ~isnan(b) /\ a < b
FLe(a, b) == ~isnan(a) /\ ~isnan(b) /\ a <= b

\* --------------------------------------------------------------- constants
NEO_DIM == 3
NEO_BRIGHT == 8
UPDATE_PERIOD_DS18B20 == 1000
UPDATE_PERIOD_DHT22 == 2000
LOW == 0
HIGH == 1

Blue == <<0, 0, 255>>
Green == <<0, 255, 0>>
Red == <<255, 0, 0>>

\* ---------------------------------------------------- inputs of the model
\* Milliseconds that pass between two successive reads of millis().
Elapsed == {0, 1024, 2048}

\* What DallasTemperature::getTempCByIndex can hand back: a temperature, or
\* the disconnect value -127; -126 is the edge of the test of line 121.
Ds18Readings == {F(-127), F(-126), F(20)}
\* What DHT::readHumidity and DHT::readTemperature can hand back.
HumiReadings == {NAN, F(30), F(50)}
TempReadings == {NAN, F(21)}

\* Command strings as sequences of characters.
CmdId == <<"i", "d", "?">>
CmdThQ == <<"t", "h", "?">>
CmdTh150 == <<"t", "h", "1", "5", "0">>
CmdThNeg5 == <<"t", "h", "-", "5">>
CmdTh12p5 == <<"t", "h", "1", "2", ".", "5">>
CmdSuper == <<"o", "p", "e", "n", " ", "w", "h", "e", "n", " ",
              "s", "u", "p", "e", "r", " ", "h", "u", "m", "i">>
CmdSub == <<"o", "p", "e", "n", " ", "w", "h", "e", "n", " ",
            "s", "u", "b", " ", "h", "u", "m", "i">>
CmdOther == <<"?">>

Commands == {CmdId, CmdThQ, CmdTh150, CmdThNeg5, CmdTh12p5, CmdSuper, CmdSub, CmdOther}

\* ------------------------------------------------------------------- state
VARIABLES
    pc,                         \* where the sketch is: "boot", "acquire" (in setup),
                                \* "loop" (about to enter loop), "actuate", "poll",
                                \* "return" (in loop)
    millis,                     \* the value millis() returned last
    ds18_temp, dht22_humi, dht22_temp,
    is_valve_open,
    pin_valve,                  \* level on PIN_SOLENOID_VALVE
    humi_threshold, open_valve_when_super_humi,
    dht22_tick, ds18_tick, toggle_LED,
    neo_color, neo_brightness,  \* what the last neo.show() rendered
    rx_pending,                 \* complete commands waiting in the serial receiver
    acq_failed,                 \* per channel, its latest acquisition: "none", "ok"
                                \* or "failed"
    last_th,                    \* the latest th<number> command handled, <<>> if none
    \* what the iteration of loop() in progress has done so far
    serial_out,                 \* lines it printed
    strCmd,                     \* the command it got from sc.getCmd(), if any
    branch,                     \* branch of lines 158-196 it took
    dht22_fired, ds18_fired,    \* sampler blocks it ran
    health_ran,                 \* it ran the LED block
    valve_before                \* is_valve_open when it began

vars == <<pc, millis, ds18_temp, dht22_humi, dht22_temp, is_valve_open, pin_valve,
          humi_threshold, open_valve_when_super_humi, dht22_tick, ds18_tick,
          toggle_LED, neo_color, neo_brightness, serial_out, strCmd, branch,
          dht22_fired, ds18_fired, health_ran, acq_failed, valve_before,
          rx_pending, last_th>>

\* ----------------------------------------------------------------- helpers
\* uint32_t subtraction
USub(a, b) == (a - b + Modulus) % Modulus

\* a due test by direct ordering, now >= tick + PERIOD, in uint32_t
DueDirectOrdering(now, tick, period) == now >= (tick + period) % Modulus

\* lines 108 and 116: now - tick >= PERIOD
Due(now, tick, period) == USub(now, tick) >= period

\* a DS18B20 block without the disconnect test
Ds18FilterMissing(t) == t

\* line 121-123
Ds18Filter(t) == IF FLe(t, F(-126)) THEN NAN ELSE t

\* a health test that leaves the DHT22 temperature out
HealthColorWithoutDhtTemp(humi, temp, ds18) ==
    IF isnan(humi) \/ isnan(ds18) THEN Red ELSE Green

\* a health test with its two colours swapped
HealthColorInverted(humi, temp, ds18) ==
    IF isnan(humi) \/ isnan(temp) \/ isnan(ds18) THEN Green ELSE Red

\* line 125-129
HealthColor(humi, temp, ds18) ==
    IF isnan(humi) \/ isnan(temp) \/ isnan(ds18) THEN Red ELSE Green

\* a heartbeat that has lost its dim branch
HeartbeatBrightnessStuck(toggle) == NEO_BRIGHT

\* line 132-136
HeartbeatBrightness(toggle) == IF toggle THEN NEO_BRIGHT ELSE NEO_DIM

\* a decision with inclusive comparisons
ValveDecisionInclusive(humi, threshold, super) ==
    IF isnan(humi)
    THEN FALSE
    ELSE (humi >= threshold /\ super) \/ (humi <= threshold /\ ~super)

\* a decision that ignores the polarity flag
ValveDecisionIgnoresPolarity(humi, threshold, super) ==
    IF isnan(humi) THEN FALSE ELSE FGt(humi, threshold)

\* line 142-156
ValveDecision(humi, threshold, super) ==
    IF isnan(humi)
    THEN FALSE
    ELSE (FGt(humi, threshold) /\ super) \/ (FLt(humi, threshold) /\ ~super)

PinLevel(open) == IF open THEN HIGH ELSE LOW

\* whether an acquisition of a channel failed
DhtFailed(raw) == isnan(raw)
Ds18Failed(raw) == isnan(raw) \/ raw <= F(-126)
AcqStatus(failed) == IF failed THEN "failed" ELSE "ok"

\* ------------------------------------------------------------ serial input
Digits == <<"0", "1", "2", "3", "4", "5", "6", "7", "8", "9">>
IsDigit(c) == \E i \in 1..10 : Digits[i] = c
DigitVal(c) == (CHOOSE i \in 1..10 : Digits[i] = c) - 1

\* value of the leading digits of s, continuing from acc
RECURSIVE LeadingDigits(_, _)
LeadingDigits(s, acc) ==
    IF s # <<>> /\ IsDigit(Head(s))
    THEN LeadingDigits(Tail(s), acc * 10 + DigitVal(Head(s)))
    ELSE acc

RECURSIVE DropDigits(_)
DropDigits(s) == IF s # <<>> /\ IsDigit(Head(s)) THEN DropDigits(Tail(s)) ELSE s

\* atof on [-]digits[.digit], in tenths; text that is no number gives 0
Atof(s) ==
    LET neg == s # <<>> /\ Head(s) = "-"
        body == IF neg THEN Tail(s) ELSE s
        rest == DropDigits(body)
        frac == IF Len(rest) >= 2 /\ rest[1] = "." /\ IsDigit(rest[2])
                THEN DigitVal(rest[2]) ELSE 0
        mag == F(LeadingDigits(body, 0)) + frac
    IN  IF neg THEN 0 - mag ELSE mag

\* DvG_SerialCommand's parseFloatInString(strIn, iPos): the float that starts at
\* position iPos of the string, 0 if the string ends before it
parseFloatInString(s, iPos) ==
    IF Len(s) > iPos THEN Atof(SubSeq(s, iPos + 1, Len(s))) ELSE 0

\* Arduino's constrain(amt, low, high)
constrain(amt, low, high) ==
    IF FLt(amt, low) THEN low ELSE IF FGt(amt, high) THEN high ELSE amt

\* strncmp(s, p, Len(p)) == 0
HasPrefix(s, p) == Len(s) >= Len(p) /\ SubSeq(s, 1, Len(p)) = p

\* a chain that tests the "th" prefix before the exact "th?"
CmdBranchPrefixFirst(s) ==
    IF s = CmdId THEN "id?"
    ELSE IF HasPrefix(s, <<"t", "h">>) THEN "th"
    ELSE IF s = CmdThQ THEN "th?"
    ELSE IF s = CmdSuper THEN "super"
    ELSE IF s = CmdSub THEN "sub"
    ELSE "status"

\* the if / else-if chain of lines 161-188: the branch a command takes
CmdBranch(s) ==
    IF s = CmdId THEN "id?"
    ELSE IF s = CmdThQ THEN "th?"
    ELSE IF HasPrefix(s, <<"t", "h">>) THEN "th"
    ELSE IF s = CmdSuper THEN "super"
    ELSE IF s = CmdSub THEN "sub"
    ELSE "status"

\* a threshold stored without constrain()
SetThresholdUnclamped(s) == parseFloatInString(s, 2)

\* line 170
SetThreshold(s) == constrain(parseFloatInString(s, 2), F(0), F(100))

ThresholdAfter(s, threshold) ==
    IF CmdBranch(s) = "th" THEN SetThreshold(s) ELSE threshold

\* a polarity branch written as if / else instead of two else-ifs
SuperAfterElseSub(s, super) == CmdBranch(s) = "super"

\* lines 173 and 176
SuperAfter(s, super) ==
    IF CmdBranch(s) = "super" THEN TRUE
    ELSE IF CmdBranch(s) = "sub" THEN FALSE
    ELSE super

\* ----------------------------------------------------------- serial output
\* Print::println(float, 0): rounded to a whole number
Fmt0(x) == IF x >= 0 THEN (x + 5) \div 10 ELSE 0 - ((5 - x) \div 10)

\* String(float, 1): "nan", or the value with one decimal
Fmt1(x) == IF isnan(x) THEN [nan |-> TRUE, tenths |-> 0] ELSE [nan |-> FALSE, tenths |-> x]

\* String(bool)
FmtBool(b) == IF b THEN 1 ELSE 0

\* lines 189-194
StatusLine(tick, ds18, temp, humi, open) ==
    [kind |-> "status", tick |-> tick, ds18 |-> Fmt1(ds18), dht_temp |-> Fmt1(temp),
     dht_humi |-> Fmt1(humi), valve |-> FmtBool(open)]

\* what a command prints (lines 162, 166, 189)
Printed(s, threshold, tick, ds18, temp, humi, open) ==
    IF CmdBranch(s) = "id?" THEN <<[kind |-> "id"]>>
    ELSE IF CmdBranch(s) = "th?" THEN <<[kind |-> "threshold", text |-> Fmt0(threshold)]>>
    ELSE IF CmdBranch(s) = "status" THEN <<StatusLine(tick, ds18, temp, humi, open)>>
    ELSE <<>>

\* -------------------------------------------------------------------- Init
Off == <<0, 0, 0>>

Init ==
    /\ pc = "boot"
    /\ millis = 0
    /\ ds18_temp = NAN
    /\ dht22_humi = NAN
    /\ dht22_temp = NAN
    /\ is_valve_open = FALSE
    /\ pin_valve = LOW
    /\ humi_threshold = F(50)
    /\ open_valve_when_super_humi = TRUE
    /\ dht22_tick = 0
    /\ ds18_tick = 0
    /\ toggle_LED = FALSE
    /\ neo_color = Off
    /\ neo_brightness = 0
    /\ serial_out = <<>>
    /\ strCmd = <<>>
    /\ branch = "none"
    /\ dht22_fired = FALSE
    /\ ds18_fired = FALSE
    /\ health_ran = FALSE
    /\ acq_failed = [ds18 |-> "none", dht_humi |-> "none", dht_temp |-> "none"]
    /\ valve_before = FALSE
    /\ rx_pending = 0
    /\ last_th = <<>>

\* ----------------------------------------------------------------- actions
cache == <<ds18_temp, dht22_humi, dht22_temp>>
config == <<humi_threshold, open_valve_when_super_humi>>
valve == <<is_valve_open, pin_valve>>
timers == <<millis, dht22_tick, ds18_tick>>
led == <<toggle_LED, neo_color, neo_brightness>>
local == <<serial_out, strCmd, branch, dht22_fired, ds18_fired, health_ran, valve_before>>
serial == <<rx_pending, last_th>>

\* setup(), lines 74-84: valve output low, LED blue, drivers started
SetupBegin ==
    /\ pc = "boot"
    /\ pc' = "acquire"
    /\ pin_valve' = LOW
    /\ neo_color' = Blue
    /\ neo_brightness' = NEO_BRIGHT
    /\ UNCHANGED <<cache, config, timers, local, is_valve_open, toggle_LED, acq_failed,
                   serial>>

\* setup(), lines 86-94: the first readings, then LED green
SetupAcquire(rawDs18, rawHumi, rawTemp) ==
    /\ pc = "acquire"
    /\ pc' = "loop"
    /\ ds18_temp' = rawDs18
    /\ dht22_humi' = rawHumi
    /\ dht22_temp' = rawTemp
    /\ neo_color' = Green
    /\ neo_brightness' = NEO_BRIGHT
    /\ acq_failed' = [ds18 |-> AcqStatus(Ds18Failed(rawDs18)),
                      dht_humi |-> AcqStatus(DhtFailed(rawHumi)),
                      dht_temp |-> AcqStatus(DhtFailed(rawTemp))]
    /\ UNCHANGED <<config, timers, local, valve, toggle_LED, serial>>

\* an LED block placed in the DHT22 block
LedBlockRunsWithDht22(dhtDue, ds18Due) == dhtDue

\* lines 116-139: the LED block (lines 125-138) is inside the DS18B20 block
LedBlockRuns(dhtDue, ds18Due) == ds18Due

\* loop(), lines 103-139: read the clock, run the sampler blocks that are due,
\* and with the DS18B20 block the LED block. d is the time since millis() was
\* last read; the raw values are what the drivers return if they are asked.
LoopSample(d, rawDs18, rawHumi, rawTemp) ==
    LET now == (millis + d) % Modulus
        dhtDue == Due(now, dht22_tick, UPDATE_PERIOD_DHT22)
        humi == IF dhtDue THEN rawHumi ELSE dht22_humi
        temp == IF dhtDue THEN rawTemp ELSE dht22_temp
        ds18Due == Due(now, ds18_tick, UPDATE_PERIOD_DS18B20)
        ds18 == IF ds18Due THEN Ds18Filter(rawDs18) ELSE ds18_temp
        ledDue == LedBlockRuns(dhtDue, ds18Due)
    IN  /\ pc = "loop"
        /\ pc' = "actuate"
        /\ millis' = now
        /\ dht22_tick' = IF dhtDue THEN now ELSE dht22_tick
        /\ dht22_humi' = humi
        /\ dht22_temp' = temp
        /\ ds18_tick' = IF ds18Due THEN now ELSE ds18_tick
        /\ ds18_temp' = ds18
        /\ neo_color' = IF ledDue THEN HealthColor(humi, temp, ds18) ELSE neo_color
        /\ neo_brightness' = IF ledDue THEN HeartbeatBrightness(toggle_LED)
                             ELSE neo_brightness
        /\ toggle_LED' = IF ledDue THEN ~toggle_LED ELSE toggle_LED
        /\ acq_failed' =
               [ds18 |-> IF ds18Due THEN AcqStatus(Ds18Failed(rawDs18)) ELSE acq_failed.ds18,
                dht_humi |-> IF dhtDue THEN AcqStatus(DhtFailed(rawHumi))
                             ELSE acq_failed.dht_humi,
                dht_temp |-> IF dhtDue THEN AcqStatus(DhtFailed(rawTemp))
                             ELSE acq_failed.dht_temp]
        /\ dht22_fired' = dhtDue
        /\ ds18_fired' = ds18Due
        /\ health_ran' = ledDue
        /\ valve_before' = is_valve_open
        /\ UNCHANGED <<config, valve, serial_out, strCmd, branch, serial>>

\* an actuation step that leaves the valve as it is while the humidity is NAN
LoopActuateHold ==
    LET open == IF isnan(dht22_humi) THEN is_valve_open
                ELSE ValveDecision(dht22_humi, humi_threshold, open_valve_when_super_humi)
    IN  /\ pc = "actuate"
        /\ pc' = "poll"
        /\ is_valve_open' = open
        /\ pin_valve' = PinLevel(open)
        /\ UNCHANGED <<cache, config, timers, led, local, acq_failed, serial>>

\* an iteration whose actuation step is missing before the command poll
LoopActuateSkipped ==
    /\ pc = "actuate"
    /\ pc' = "poll"
    /\ UNCHANGED <<cache, config, valve, timers, led, local, acq_failed, serial>>

\* a valve block that runs only in an iteration that sampled the DHT22
LoopActuateOnlyWhenSampled ==
    LET open == IF dht22_fired
                THEN ValveDecision(dht22_humi, humi_threshold, open_valve_when_super_humi)
                ELSE is_valve_open
    IN  /\ pc = "actuate"
        /\ pc' = "poll"
        /\ is_valve_open' = open
        /\ pin_valve' = PinLevel(open)
        /\ UNCHANGED <<cache, config, timers, led, local, acq_failed, serial>>

\* a valve block that sets the flag and leaves the digitalWrite out
LoopActuateFlagOnly ==
    LET open == ValveDecision(dht22_humi, humi_threshold, open_valve_when_super_humi)
    IN  /\ pc = "actuate"
        /\ pc' = "poll"
        /\ is_valve_open' = open
        /\ UNCHANGED <<pin_valve, cache, config, timers, led, local, acq_failed, serial>>

\* loop(), lines 141-156: the valve follows the humidity
LoopActuate ==
    LET open == ValveDecision(dht22_humi, humi_threshold, open_valve_when_super_humi)
    IN  /\ pc = "actuate"
        /\ pc' = "poll"
        /\ is_valve_open' = open
        /\ pin_valve' = PinLevel(open)
        /\ UNCHANGED <<cache, config, timers, led, local, acq_failed, serial>>

\* sc.available(): a complete command is waiting
SerialAvailable == rx_pending > 0

\* a command poll that is skipped in an iteration in which a sampler block ran
LoopCommandWhenIdle(avail, cmd) ==
    /\ pc = "poll"
    /\ pc' = "return"
    /\ avail = (SerialAvailable /\ ~dht22_fired /\ ~ds18_fired)
    /\ rx_pending' = IF avail THEN rx_pending - 1 ELSE rx_pending
    /\ last_th' = IF avail /\ CmdBranch(cmd) = "th" THEN cmd ELSE last_th
    /\ humi_threshold' = IF avail THEN ThresholdAfter(cmd, humi_threshold)
                         ELSE humi_threshold
    /\ open_valve_when_super_humi' =
           IF avail THEN SuperAfter(cmd, open_valve_when_super_humi)
           ELSE open_valve_when_super_humi
    /\ serial_out' = IF avail
                     THEN Printed(cmd, humi_threshold, ds18_tick, ds18_temp, dht22_temp,
                                  dht22_humi, is_valve_open)
                     ELSE <<>>
    /\ strCmd' = IF avail THEN cmd ELSE <<>>
    /\ branch' = IF avail THEN CmdBranch(cmd) ELSE "none"
    /\ UNCHANGED <<cache, valve, timers, led, acq_failed,
                   dht22_fired, ds18_fired, health_ran, valve_before>>

\* a command handler that runs the valve block again after it has stored a
\* new configuration
LoopCommandReappliesValve(avail, cmd) ==
    LET thr == IF avail THEN ThresholdAfter(cmd, humi_threshold) ELSE humi_threshold
        super == IF avail THEN SuperAfter(cmd, open_valve_when_super_humi)
                 ELSE open_valve_when_super_humi
        open == ValveDecision(dht22_humi, thr, super)
    IN  /\ pc = "poll"
        /\ pc' = "return"
        /\ avail = SerialAvailable
        /\ rx_pending' = IF avail THEN rx_pending - 1 ELSE rx_pending
        /\ last_th' = IF avail /\ CmdBranch(cmd) = "th" THEN cmd ELSE last_th
        /\ humi_threshold' = thr
        /\ open_valve_when_super_humi' = super
        /\ is_valve_open' = open
        /\ pin_valve' = PinLevel(open)
        /\ serial_out' = IF avail
                         THEN Printed(cmd, humi_threshold, ds18_tick, ds18_temp, dht22_temp,
                                      dht22_humi, is_valve_open)
                         ELSE <<>>
        /\ strCmd' = IF avail THEN cmd ELSE <<>>
        /\ branch' = IF avail THEN CmdBranch(cmd) ELSE "none"
        /\ UNCHANGED <<cache, timers, led, acq_failed,
                       dht22_fired, ds18_fired, health_ran, valve_before>>

\* loop(), lines 158-196: avail is what sc.available() returns and cmd what
\* sc.getCmd() then returns.
LoopCommand(avail, cmd) ==
    /\ pc = "poll"
    /\ pc' = "return"
    /\ avail = SerialAvailable
    /\ rx_pending' = IF avail THEN rx_pending - 1 ELSE rx_pending
    /\ last_th' = IF avail /\ CmdBranch(cmd) = "th" THEN cmd ELSE last_th
    /\ humi_threshold' = IF avail THEN ThresholdAfter(cmd, humi_threshold)
                         ELSE humi_threshold
    /\ open_valve_when_super_humi' =
           IF avail THEN SuperAfter(cmd, open_valve_when_super_humi)
           ELSE open_valve_when_super_humi
    /\ serial_out' = IF avail
                     THEN Printed(cmd, humi_threshold, ds18_tick, ds18_temp, dht22_temp,
                                  dht22_humi, is_valve_open)
                     ELSE <<>>
    /\ strCmd' = IF avail THEN cmd ELSE <<>>
    /\ branch' = IF avail THEN CmdBranch(cmd) ELSE "none"
    /\ UNCHANGED <<cache, valve, timers, led, acq_failed,
                   dht22_fired, ds18_fired, health_ran, valve_before>>

\* A complete command arrives on the serial line and waits to be polled.
Receive ==
    /\ pc # "boot"
    /\ rx_pending < MaxPending
    /\ rx_pending' = rx_pending + 1
    /\ UNCHANGED <<pc, cache, config, valve, timers, led, local, acq_failed, last_th>>

\* a loop() that stops being called again once the humidity reading is NAN
LoopReturnHaltsOnFailure ==
    /\ pc = "return"
    /\ IF isnan(dht22_humi)
       THEN UNCHANGED vars
       ELSE /\ pc' = "loop"
            /\ serial_out' = <<>>
            /\ strCmd' = <<>>
            /\ branch' = "none"
            /\ dht22_fired' = FALSE
            /\ ds18_fired' = FALSE
            /\ health_ran' = FALSE
            /\ valve_before' = FALSE
            /\ UNCHANGED <<cache, config, valve, timers, led, acq_failed, serial>>

\* loop() returns, line 197; its caller calls it again.
LoopReturn ==
    /\ pc = "return"
    /\ pc' = "loop"
    /\ serial_out' = <<>>
    /\ strCmd' = <<>>
    /\ branch' = "none"
    /\ dht22_fired' = FALSE
    /\ ds18_fired' = FALSE
    /\ health_ran' = FALSE
    /\ valve_before' = FALSE
    /\ UNCHANGED <<cache, config, valve, timers, led, acq_failed, serial>>

\* The drivers are asked only in an iteration whose sampler block runs.
Ds18Asked(d) == Due((millis + d) % Modulus, ds18_tick, UPDATE_PERIOD_DS18B20)
DhtAsked(d) == Due((millis + d) % Modulus, dht22_tick, UPDATE_PERIOD_DHT22)

Next ==
    \/ SetupBegin
    \/ \E r1 \in Ds18Readings, r2 \in HumiReadings, r3 \in TempReadings :
           SetupAcquire(r1, r2, r3)
    \/ \E d \in Elapsed :
         \E r1 \in (IF Ds18Asked(d) THEN Ds18Readings ELSE {ds18_temp}),
            r2 \in (IF DhtAsked(d) THEN HumiReadings ELSE {dht22_humi}),
            r3 \in (IF DhtAsked(d) THEN TempReadings ELSE {dht22_temp}) :
           LoopSample(d, r1, r2, r3)
    \/ LoopActuate
    \/ LoopCommand(FALSE, CmdOther)
    \/ \E cmd \in Commands : LoopCommand(TRUE, cmd)
    \/ LoopReturn
    \/ Receive

Spec == Init /\ [][Next]_vars

\* The Arduino core runs setup() once and then calls loop() again and again:
\* each step of setup() and of loop() that can be taken is taken.
Startup ==
    \/ SetupBegin
    \/ \E r1 \in Ds18Readings, r2 \in HumiReadings, r3 \in TempReadings :
           SetupAcquire(r1, r2, r3)

Sample(D) ==
    \E d \in D :
      \E r1 \in (IF Ds18Asked(d) THEN Ds18Readings ELSE {ds18_temp}),
         r2 \in (IF DhtAsked(d) THEN HumiReadings ELSE {dht22_humi}),
         r3 \in (IF DhtAsked(d) THEN TempReadings ELSE {dht22_temp}) :
        LoopSample(d, r1, r2, r3)

Iteration ==
    \/ Sample(Elapsed)
    \/ LoopActuate
    \/ LoopCommand(FALSE, CmdOther)
    \/ \E cmd \in Commands : LoopCommand(TRUE, cmd)
    \/ LoopReturn

\* millis() advances: again and again an iteration reads a later clock value.
ClockAdvances == Sample(Elapsed \ {0})

SpecLive ==
    /\ Spec
    /\ WF_vars(Startup)
    /\ WF_vars(Iteration)
    /\ SF_vars(ClockAdvances)

\* Every sensor fails from boot on: the DS18B20 driver returns its disconnect
\* value and the DHT22 driver NAN, at every acquisition.
Ds18Failing == {F(-127)}
DhtFailing == {NAN}

NextAllFail ==
    \/ SetupBegin
    \/ \E r1 \in Ds18Failing, r2 \in DhtFailing, r3 \in DhtFailing :
           SetupAcquire(r1, r2, r3)
    \/ \E d \in Elapsed :
         \E r1 \in (IF Ds18Asked(d) THEN Ds18Failing ELSE {ds18_temp}),
            r2 \in (IF DhtAsked(d) THEN DhtFailing ELSE {dht22_humi}),
            r3 \in (IF DhtAsked(d) THEN DhtFailing ELSE {dht22_temp}) :
           LoopSample(d, r1, r2, r3)
    \/ LoopActuate
    \/ LoopCommand(FALSE, CmdOther)
    \/ \E cmd \in Commands : LoopCommand(TRUE, cmd)
    \/ LoopReturn
    \/ Receive

SpecAllFail == Init /\ [][NextAllFail]_vars

\* ------------------------------------------------------------- properties
InIteration == pc \in {"actuate", "poll", "return"}
SampleStep == pc = "loop" /\ pc' = "actuate"

\* C1: fail-safe closed. Once the actuation step of an iteration has run with
\* the cached humidity NAN, the valve flag is false and the output LOW, whatever
\* the valve was before; and at the end of setup and of every iteration an open
\* valve implies a valid humidity.
C1_FailSafeClosed ==
    /\ (pc \in {"poll", "return"} /\ isnan(dht22_humi))
          => (~is_valve_open /\ pin_valve = LOW)
    /\ (pc \in {"loop", "poll", "return"} /\ is_valve_open) => ~isnan(dht22_humi)

\* an iteration that began with the valve open has closed it on a NAN humidity
C1_Witness ==
    /\ pc = "poll"
    /\ valve_before
    /\ isnan(dht22_humi)
    /\ ~is_valve_open
    /\ pin_valve = LOW

\* C2: for a valid humidity h and threshold t the decision just computed is
\* h > t under "open when super humi" and h < t under "open when sub humi";
\* at h = t it is closed under both.
C2_StrictThreshold ==
    (pc = "poll" /\ ~isnan(dht22_humi)) =>
        /\ is_valve_open = IF open_valve_when_super_humi
                           THEN dht22_humi > humi_threshold
                           ELSE dht22_humi < humi_threshold
        /\ (dht22_humi = humi_threshold => ~is_valve_open)

\* the humidity sits on the threshold under "open when sub humi": closed
C2_Witness ==
    /\ pc = "poll"
    /\ ~isnan(dht22_humi)
    /\ dht22_humi = humi_threshold
    /\ ~open_valve_when_super_humi
    /\ ~is_valve_open

\* C3 as stated: for a valid humidity the decision is open exactly when the
\* boolean (h > t) equals the polarity flag, h = t included.
C3_OpenIffAboveEqualsPolarity ==
    (pc = "poll" /\ ~isnan(dht22_humi)) =>
        (is_valve_open <=> ((dht22_humi > humi_threshold) = open_valve_when_super_humi))

\* C3 amended: for a valid humidity h # t the decision is open exactly when
\* (h > t) equals the polarity flag; at h = t it is closed for both polarities.
C3_OpenIffAboveEqualsPolarityOffThreshold ==
    (pc = "poll" /\ ~isnan(dht22_humi)) =>
        (is_valve_open <=>
            (/\ dht22_humi # humi_threshold
             /\ (dht22_humi > humi_threshold) = open_valve_when_super_humi))

\* below the threshold under "open when sub humi": (h > t) and the flag are
\* both false, and the valve is open
C3_Witness ==
    /\ pc = "poll"
    /\ ~isnan(dht22_humi)
    /\ dht22_humi < humi_threshold
    /\ ~open_valve_when_super_humi
    /\ is_valve_open

\* C4: the stored threshold is 50 until a command changes it and always lies
\* in [0, 100]; th150 stores 100, th-5 stores 0 and th12.5 stores 12.5.
C4_ThresholdClamped ==
    /\ F(0) <= humi_threshold /\ humi_threshold <= F(100)
    /\ pc \in {"boot", "acquire"} => humi_threshold = F(50)
    /\ (pc = "return" /\ strCmd = CmdTh150) => humi_threshold = F(100)
    /\ (pc = "return" /\ strCmd = CmdThNeg5) => humi_threshold = F(0)
    /\ (pc = "return" /\ strCmd = CmdTh12p5) => humi_threshold = 125

\* th150 has just been handled and 100 is stored
C4_Witness ==
    /\ pc = "return"
    /\ strCmd = CmdTh150
    /\ humi_threshold = F(100)

\* C5: in every iteration each sampler block runs exactly when
\* (now - last_fire) mod 2^WordBits >= its period, a block that runs sets its
\* last_fire to now, and one that does not leaves it alone; so a channel is
\* never left waiting a period or more, also when the clock has wrapped.
C5_DueByModularDifference ==
    [][SampleStep =>
        /\ dht22_fired' = ((millis' - dht22_tick) % Modulus >= UPDATE_PERIOD_DHT22)
        /\ ds18_fired' = ((millis' - ds18_tick) % Modulus >= UPDATE_PERIOD_DS18B20)
        /\ dht22_tick' = (IF dht22_fired' THEN millis' ELSE dht22_tick)
        /\ ds18_tick' = (IF ds18_fired' THEN millis' ELSE ds18_tick)
        /\ (millis' - dht22_tick') % Modulus < UPDATE_PERIOD_DHT22
        /\ (millis' - ds18_tick') % Modulus < UPDATE_PERIOD_DS18B20]_vars

\* both blocks have run at a clock value below the DHT22 period: the clock has
\* wrapped since the DHT22 block ran last
C5_Witness ==
    /\ pc = "actuate"
    /\ dht22_fired
    /\ ds18_fired
    /\ millis > 0
    /\ millis < UPDATE_PERIOD_DHT22
    /\ dht22_tick = millis
    /\ ds18_tick = millis

\* C6: an iteration that ran the health evaluation has set the colour to red
\* if one of the three cached readings is NAN and to green if none is.
C6_HealthColour ==
    (InIteration /\ health_ran) =>
        neo_color = IF isnan(ds18_temp) \/ isnan(dht22_temp) \/ isnan(dht22_humi)
                    THEN Red ELSE Green

\* the DHT22 temperature alone is invalid and the colour is red
C6_Witness ==
    /\ pc = "actuate"
    /\ health_ran
    /\ isnan(dht22_temp)
    /\ ~isnan(dht22_humi)
    /\ ~isnan(ds18_temp)
    /\ neo_color = Red

\* C7 as stated: the health evaluation runs in exactly the iterations in which
\* the sampler with the longer period (the DHT22, 2000 ms) fires.
C7_HealthWithLongerPeriod == InIteration => (health_ran <=> dht22_fired)

\* C7 amended: the health evaluation, the colour update and the heartbeat flip
\* happen in exactly the iterations in which the DS18B20 sampler (the one with
\* the shorter period, 1000 ms) fires; no other step touches the LED state
\* once setup is over.
C7_HealthWithDs18b20 ==
    [][pc \notin {"boot", "acquire"} =>
        IF SampleStep
        THEN /\ health_ran' = ds18_fired'
             /\ ds18_fired' => toggle_LED' # toggle_LED
             /\ ~ds18_fired' => UNCHANGED led
        ELSE UNCHANGED led]_vars

\* the DS18B20 block ran without the DHT22 block, and the health evaluation ran
C7_Witness ==
    /\ pc = "actuate"
    /\ ds18_fired
    /\ ~dht22_fired
    /\ health_ran

\* C8: from the end of setup on, a cached reading is NAN exactly when the
\* latest acquisition of its channel failed or none has completed.
C8_ValidIffAcquired ==
    pc \notin {"boot", "acquire"} =>
        /\ isnan(ds18_temp) <=> acq_failed.ds18 # "ok"
        /\ isnan(dht22_humi) <=> acq_failed.dht_humi # "ok"
        /\ isnan(dht22_temp) <=> acq_failed.dht_temp # "ok"

\* C9: every health-evaluation firing flips the heartbeat bit and renders a
\* brightness other than the one rendered before it, whatever the colour;
\* between firings neither changes.
C9_HeartbeatAlternates ==
    [][pc \notin {"boot", "acquire"} =>
        IF SampleStep /\ health_ran'
        THEN /\ toggle_LED' = ~toggle_LED
             /\ neo_brightness' # neo_brightness
             /\ neo_brightness' \in {NEO_DIM, NEO_BRIGHT}
        ELSE UNCHANGED <<toggle_LED, neo_brightness>>]_vars

\* a firing has rendered bright while the colour is red
C9_Witness ==
    /\ pc = "actuate"
    /\ health_ran
    /\ neo_brightness = NEO_BRIGHT
    /\ neo_color = Red
    /\ ~toggle_LED

\* C10: a status report printed by an iteration carries the cache as that
\* iteration's sampler step left it (with the time stamp of a DS18B20 block that
\* ran in it) and the valve decision for that cache and the stored threshold
\* and polarity.
C10_ReportIsFresh ==
    (pc = "return" /\ branch = "status") =>
        /\ Len(serial_out) = 1
        /\ serial_out[1].kind = "status"
        /\ serial_out[1].tick = ds18_tick
        /\ (ds18_fired => serial_out[1].tick = millis)
        /\ serial_out[1].ds18 = Fmt1(ds18_temp)
        /\ serial_out[1].dht_temp = Fmt1(dht22_temp)
        /\ serial_out[1].dht_humi = Fmt1(dht22_humi)
        /\ serial_out[1].valve =
               FmtBool(ValveDecision(dht22_humi, humi_threshold, open_valve_when_super_humi))

\* a report printed in an iteration that ran both sampler blocks, and whose
\* valve changed with the fresh humidity, shows the valve open
C10_Witness ==
    /\ pc = "return"
    /\ branch = "status"
    /\ dht22_fired
    /\ ds18_fired
    /\ ~valve_before
    /\ Len(serial_out) = 1
    /\ serial_out[1].valve = 1
    /\ serial_out[1].dht_humi = Fmt1(F(30))

\* C11: the configuration is (50, open when super humi) at boot and only the
\* command step writes it; handling id?, th? or an unrecognized token leaves
\* threshold, polarity and the sensor cache as they are, and an unrecognized
\* token prints the status line.
C11_ConfigOnlyByCommands ==
    [][/\ pc = "boot" => config = <<F(50), TRUE>>
       /\ pc' # "return" => UNCHANGED config
       /\ (pc = "poll" /\ strCmd' \in {CmdId, CmdThQ, CmdOther})
             => UNCHANGED <<config, cache>>
       /\ (pc = "poll" /\ strCmd' = CmdOther)
             => (Len(serial_out') = 1 /\ serial_out'[1].kind = "status")]_vars

\* an unrecognized token has printed the status line and left a configuration
\* that earlier commands had changed
C11_Witness ==
    /\ pc = "return"
    /\ strCmd = CmdOther
    /\ humi_threshold = F(100)
    /\ ~open_valve_when_super_humi
    /\ Len(serial_out) = 1
    /\ serial_out[1].kind = "status"

\* C12 (under SpecAllFail): with every sensor failing from boot on, every
\* health evaluation sets the colour to red and it stays red from the first one
\* on; the valve flag is false and the output LOW in every state, whatever the
\* threshold and polarity.
C12_AllFailRedAndClosed ==
    [][/\ ~is_valve_open' /\ pin_valve' = LOW
       /\ (SampleStep /\ health_ran') => neo_color' = Red
       /\ neo_color = Red => neo_color' = Red]_vars

\* a health evaluation has run with all sensors failing, under a configuration
\* that opens the valve for every valid humidity below 100
C12_Witness ==
    /\ pc = "poll"
    /\ health_ran
    /\ neo_color = Red
    /\ acq_failed = [ds18 |-> "failed", dht_humi |-> "failed", dht_temp |-> "failed"]
    /\ ~open_valve_when_super_humi
    /\ humi_threshold = F(100)
    /\ ~is_valve_open

\* C13: the indicator shows the setup colour during the startup acquisition
\* and the step that ends it sets the health status of what was acquired: the
\* OK colour only if all three acquisitions succeeded, the error colour
\* otherwise.
C13_StartupHealthStatus ==
    [][pc = "acquire" =>
        /\ neo_color = Blue
        /\ neo_color' = IF \E ch \in DOMAIN acq_failed' : acq_failed'[ch] = "failed"
                        THEN Red
                        ELSE Green]_vars

\* the latest acquisition of some channel failed
AnyFailed == \E ch \in DOMAIN acq_failed : acq_failed[ch] = "failed"

\* C14 (under SpecLive): with loop() called again and again and the clock
\* advancing, both sampler blocks fire infinitely often and the heartbeat bit
\* is infinitely often set and infinitely often clear, whatever the sensors
\* return; if from some point on some channel's latest acquisition has always
\* failed, the colour is red from some point on.
C14_NoHalt ==
    /\ []<>(pc = "actuate" /\ dht22_fired)
    /\ []<>(pc = "actuate" /\ ds18_fired)
    /\ []<>toggle_LED
    /\ []<>(~toggle_LED)
    /\ (<>[]AnyFailed => <>[](neo_color = Red))

\* both samplers fire with every acquisition failing, after the clock has
\* wrapped around
C14_Witness ==
    /\ pc = "actuate"
    /\ millis = 0
    /\ dht22_fired
    /\ ds18_fired
    /\ health_ran
    /\ acq_failed = [ds18 |-> "failed", dht_humi |-> "failed", dht_temp |-> "failed"]
    /\ neo_color = Red

\* the command poll of an iteration
PollStep == pc = "poll" /\ pc' = "return"

\* C15: the command poll of an iteration handles exactly one command if one is
\* waiting, whichever sampler blocks ran in the iteration, and none otherwise;
\* no other step of the iteration handles or discards a command, so an
\* iteration handles at most one.
C15_OneCommandPerIteration ==
    [][IF PollStep
       THEN IF rx_pending > 0
            THEN /\ rx_pending' = rx_pending - 1
                 /\ branch' # "none"
                 /\ strCmd' \in Commands
                 /\ Len(serial_out') <= 1
            ELSE /\ rx_pending' = 0
                 /\ branch' = "none"
                 /\ serial_out' = <<>>
       ELSE /\ rx_pending' >= rx_pending
            /\ branch' \in {branch, "none"}
            /\ serial_out' \in {serial_out, <<>>}
            /\ UNCHANGED config]_vars

\* one of two waiting commands has been handled in an iteration in which both
\* sampler blocks ran
C15_Witness ==
    /\ pc = "return"
    /\ dht22_fired
    /\ ds18_fired
    /\ branch # "none"
    /\ Len(serial_out) = 1
    /\ rx_pending = 1

\* C16 as stated: th? emits the number clamp(n, 0, 100) of the last th<n>
\* command handled, or 50 if there was none.
C16_QueryEmitsClampedNumber ==
    (pc = "return" /\ strCmd = CmdThQ) =>
        /\ Len(serial_out) = 1
        /\ serial_out[1].kind = "threshold"
        /\ F(serial_out[1].text) = IF last_th = <<>> THEN F(50)
                                   ELSE constrain(parseFloatInString(last_th, 2),
                                                  F(0), F(100))

\* C16: th? emits one line, the stored threshold rounded to a whole number, and
\* leaves the threshold as the last th<n> command handled set it: 50 and 50
\* with no such command, 100 and 100 after th150, 0 and 0 after th-5, 13 and
\* 12.5 after th12.5.
C16_QueryEmitsRoundedThreshold ==
    (pc = "return" /\ strCmd = CmdThQ) =>
        /\ Len(serial_out) = 1
        /\ serial_out[1].kind = "threshold"
        /\ last_th \in {<<>>, CmdTh150, CmdThNeg5, CmdTh12p5}
        /\ last_th = <<>> => (serial_out[1].text = 50 /\ humi_threshold = F(50))
        /\ last_th = CmdTh150 => (serial_out[1].text = 100 /\ humi_threshold = F(100))
        /\ last_th = CmdThNeg5 => (serial_out[1].text = 0 /\ humi_threshold = F(0))
        /\ last_th = CmdTh12p5 => (serial_out[1].text = 13 /\ humi_threshold = 125)

\* th? has just been answered with 13 after th12.5
C16_Witness ==
    /\ pc = "return"
    /\ strCmd = CmdThQ
    /\ last_th = CmdTh12p5
    /\ Len(serial_out) = 1
    /\ serial_out[1].text = 13

\* the valve block of an iteration
ActuateStep == pc = "actuate" /\ pc' = "poll"

\* C17: the configuration a command stores in iteration k is unchanged until
\* the valve block of iteration k+1, that block sets the valve to the decision
\* for the cached humidity under the configuration it finds (open exactly when
\* the humidity is a number and lies strictly on the opening side of the
\* threshold), and the valve then stays so to the end of iteration k+1.
C17_NewConfigAtNextActuation ==
    [][/\ pc \in {"return", "loop"} => UNCHANGED config
       /\ ActuateStep =>
            /\ is_valve_open' =
                   /\ dht22_humi # NAN
                   /\ IF open_valve_when_super_humi
                      THEN dht22_humi > humi_threshold
                      ELSE dht22_humi < humi_threshold
            /\ pin_valve' = (IF is_valve_open' THEN HIGH ELSE LOW)
            /\ UNCHANGED <<config, dht22_humi>>
       /\ PollStep => UNCHANGED <<valve, dht22_humi>>]_vars

\* the valve was closed at humidity 30 when the iteration began, no humidity
\* was sampled in it, and its valve block has opened the valve under the
\* sub-threshold polarity and threshold 50 a command stored before
C17_Witness ==
    /\ pc = "poll"
    /\ ~dht22_fired
    /\ ~valve_before
    /\ dht22_humi = F(30)
    /\ humi_threshold = F(50)
    /\ ~open_valve_when_super_humi
    /\ is_valve_open
    /\ pin_valve = HIGH

\* C18 as stated: at the end of every iteration the valve flag and output equal
\* the decision for the cached humidity under the configuration then stored.
C18_ValveMatchesStoredConfig ==
    pc = "return" =>
        /\ is_valve_open =
               /\ dht22_humi # NAN
               /\ IF open_valve_when_super_humi
                  THEN dht22_humi > humi_threshold
                  ELSE dht22_humi < humi_threshold
        /\ pin_valve = (IF is_valve_open THEN HIGH ELSE LOW)

\* C18: when the command poll of an iteration begins, the valve flag and output
\* equal the decision for the cached humidity under the configuration stored at
\* that moment, and the poll leaves them so; at the end of an iteration that
\* handled no threshold or polarity command this is the configuration then
\* stored, and after such a command the valve still shows the decision under
\* the configuration the command replaced.
C18_ValveMatchesConfigAtActuation ==
    [][PollStep =>
        /\ is_valve_open =
               /\ dht22_humi # NAN
               /\ IF open_valve_when_super_humi
                  THEN dht22_humi > humi_threshold
                  ELSE dht22_humi < humi_threshold
        /\ pin_valve = (IF is_valve_open THEN HIGH ELSE LOW)
        /\ UNCHANGED <<valve, dht22_humi>>
        /\ branch' \notin {"th", "super", "sub"} => UNCHANGED config]_vars

\* the iteration that handled `open when sub humi` ends with the valve closed
\* at humidity 30 and threshold 50
C18_Witness ==
    /\ pc = "return"
    /\ branch = "sub"
    /\ dht22_humi = F(30)
    /\ humi_threshold = F(50)
    /\ ~open_valve_when_super_humi
    /\ ~is_valve_open
    /\ pin_valve = LOW

\* C19: in the loop a cached reading and the outcome recorded for its channel
\* change only in the sample step of an iteration in which the channel's block
\* ran; that block stores NAN exactly when the one acquisition it made failed
\* and the returned value otherwise, so a failed reading stays NAN until the
\* channel's next firing and is valid again after a firing that succeeded.
C19_OneAcquisitionPerFiring ==
    [][pc \notin {"boot", "acquire"} =>
        IF SampleStep
        THEN /\ IF ds18_fired'
                THEN /\ acq_failed'.ds18 \in {"ok", "failed"}
                     /\ isnan(ds18_temp') <=> acq_failed'.ds18 = "failed"
                ELSE /\ ds18_temp' = ds18_temp
                     /\ acq_failed'.ds18 = acq_failed.ds18
             /\ IF dht22_fired'
                THEN /\ acq_failed'.dht_humi \in {"ok", "failed"}
                     /\ acq_failed'.dht_temp \in {"ok", "failed"}
                     /\ isnan(dht22_humi') <=> acq_failed'.dht_humi = "failed"
                     /\ isnan(dht22_temp') <=> acq_failed'.dht_temp = "failed"
                ELSE /\ UNCHANGED <<dht22_humi, dht22_temp>>
                     /\ acq_failed'.dht_humi = acq_failed.dht_humi
                     /\ acq_failed'.dht_temp = acq_failed.dht_temp
        ELSE UNCHANGED <<cache, acq_failed>>]_vars

\* the humidity acquisition failed at an earlier firing and is still NAN in an
\* iteration in which only the DS18B20 block ran and read a valid temperature
C19_Witness ==
    /\ pc = "actuate"
    /\ ds18_fired
    /\ ~dht22_fired
    /\ acq_failed.dht_humi = "failed"
    /\ isnan(dht22_humi)
    /\ acq_failed.ds18 = "ok"
    /\ ds18_temp = F(20)

\* C20: in every state, boot, the end of setup and the end of every iteration
\* included, is_valve_open is true exactly when the solenoid output is HIGH
\* (both false and LOW while setup runs), and a status line carries 1 exactly
\* when the output is HIGH at the moment it is printed.
C20_FlagEqualsOutput ==
    /\ is_valve_open <=> pin_valve = HIGH
    /\ ~is_valve_open <=> pin_valve = LOW
    /\ pc \in {"boot", "acquire"} => pin_valve = LOW
    /\ (pc = "return" /\ branch = "status") =>
           /\ Len(serial_out) = 1
           /\ serial_out[1].kind = "status"
           /\ serial_out[1].valve = (IF pin_valve = HIGH THEN 1 ELSE 0)

\* a status line reports 1 while the solenoid output is HIGH
C20_Witness ==
    /\ pc = "return"
    /\ branch = "status"
    /\ pin_valve = HIGH
    /\ is_valve_open
    /\ Len(serial_out) = 1
    /\ serial_out[1].valve = 1

====
